---------------------------- MODULE Spec2Model ----------------------------
(***************************************************************************)
(* bankr-railway-mvp: three Express gateways in front of the Bankr agent   *)
(* service.                                                                *)
(*   src/server.js        /api/health /api/prompt /api/job/:jobId          *)
(*                        /api/prompt-and-wait /api/allowance /api/approve *)
(*   src/unnamed/part_000 /healthz /api/bankr/prompt /api/bankr/approve    *)
(*   src/unnamed/part_001 /healthz /api/bankr/approve-bnkr                 *)
(*                        /api/bankr/promptAndWait                         *)
(* One request is followed from its arrival to its response.  The requests *)
(* share no state but the rate limiter's counter, so requests are taken    *)
(* one after the other.  The poll loop itself is BankrClient.promptAndWait *)
(* of @bankr/sdk, whose code is not in the repository: it is modelled from *)
(* section 4.1 of the specification and steps between the handler's call   *)
(* and the handler's continuation.                                         *)
(***************************************************************************)
EXTENDS Integers, Sequences, FiniteSets, TLC

VARIABLES
    proxyToken,   \* BANKR_PROXY_TOKEN of the process environment, "none" when unset
    hits,         \* express-rate-limit: requests counted in the current window
    pc,           \* "idle", "polling" (inside promptAndWait), "done"
    req,          \* the request being served
    sdk,          \* promptAndWait: cfg, job status, attempts, elapsed, gave up
    calls,        \* downstream calls made for this request, per kind
    approveArg,   \* the arguments of the last client.approve call
    raw,          \* the raw error the last failed downstream call threw
    resp,         \* the response: how many were sent, status, code, amount
    fault,        \* a rejection escaped the handler
    aborted       \* the caller's connection was closed

vars == <<proxyToken, hits, pc, req, sdk, calls, approveArg, raw, resp, fault, aborted>>

----------------------------------------------------------------------------
(* Bounds of the model *)

\* RATE_LIMIT_MAX_REQUESTS of the environment the model runs under
RateLimitMax == 1
\* largest poll.maxAttempts a caller of /api/bankr/prompt supplies
MaxPollAttempts == 3

----------------------------------------------------------------------------
(* Program constants *)

PromptMinLen == 1
PromptMaxLen == 10000
TimeoutMin == 1000
TimeoutMax == 300000
IntervalMin == 1000
IntervalMax == 10000
JobIdMinLen == 1
JobIdMaxLen == 100
DefaultTimeout == 300000
DefaultInterval == 2000
ProxyDefaultInterval == 2000
ProxyDefaultMaxAttempts == 150
ProxyDefaultTimeout == 300000
FixedInterval == 2000
FixedMaxAttempts == 150
FixedTimeout == 300000
UintBits == 256

\* '0x4a15fc613c713FC52E907a77071Ec2d0a392a584'
facilitatorAddress == "0x4a15fc613c713FC52E907a77071Ec2d0a392a584"

----------------------------------------------------------------------------
(* Values of request fields.  A field is absent, or has a kind and a value *)

Absent == [k |-> "absent", v |-> 0]
IntVal(n) == [k |-> "int", v |-> n]
StrVal(n) == [k |-> "string", v |-> n]         \* a string of n characters
Other == [k |-> "other", v |-> 0]            \* a value of another type

\* Decimal strings are sequences of characters: 0..9 a digit, 10 any other
NoAmount == [k |-> "absent", v |-> <<>>]
AmountStr(s) == [k |-> "string", v |-> s]
AmountOther == [k |-> "other", v |-> <<5>>]  \* the number 5, not a string

NoReq ==
    [ep |-> "none", token |-> "none", prompt |-> Absent, walletAddress |-> "absent",
     xmtp |-> "absent", timeout |-> Absent, interval |-> Absent,
     pollInterval |-> Absent, pollMaxAttempts |-> Absent, pollTimeout |-> Absent,
     jobId |-> Absent, spender |-> "absent", amount |-> NoAmount]

NoCfg == [interval |-> 0, maxAttempts |-> 0, timeout |-> 0]
NoSdk == [cfg |-> NoCfg, job |-> "none", attempts |-> 0, elapsed |-> 0, gaveUp |-> FALSE]
NoCalls == [submit |-> 0, status |-> 0, allowance |-> 0, approve |-> 0]
NoApprove == [spender |-> "none", amount |-> [k |-> "none", v |-> <<>>]]
NoResp == [n |-> 0, status |-> 0, code |-> "none", amount |-> <<>>]

\* Raw errors of downstream calls: an Error whose message holds some of the
\* substrings the handlers look for, a thrown value without a message string,
\* or a thrown null/undefined.
Signals == {"402", "401", "404", "timeout"}
NoError == [shape |-> "none", signals |-> {}]
ErrorWith(s) == [shape |-> "Error", signals |-> s]
NoMessage == [shape |-> "noMessage", signals |-> {}]
Nullish == [shape |-> "nullish", signals |-> {}]
RawErrors ==
    {ErrorWith({})} \cup {ErrorWith({s}) : s \in Signals}
        \cup {ErrorWith({"402", "timeout"}), NoMessage, Nullish}

JobStatuses == {"pending", "processing", "completed", "failed"}
Terminal(st) == st \in {"completed", "failed"}

----------------------------------------------------------------------------
(* Amounts: unsigned decimal numbers as sequences of digits *)

RECURSIVE Reverse(_)
Reverse(s) == IF s = <<>> THEN <<>> ELSE Reverse(Tail(s)) \o <<Head(s)>>

\* twice a number (least significant digit first) plus a carry
RECURSIVE DoubleLE(_, _)
DoubleLE(ds, carry) ==
    IF ds = <<>> THEN (IF carry = 0 THEN <<>> ELSE <<carry>>)
    ELSE LET d == 2 * Head(ds) + carry
         IN  <<d % 10>> \o DoubleLE(Tail(ds), d \div 10)

\* a number doubled k times
RECURSIVE TimesPow2LE(_, _)
TimesPow2LE(ds, k) ==
    IF k = 0 THEN ds
    ELSE IF k = 1 THEN DoubleLE(ds, 0)
    ELSE LET half == TimesPow2LE(ds, k \div 2)
         IN  IF half = <<>> THEN <<>> ELSE TimesPow2LE(half, k - k \div 2)

Pow2LE(n) == TimesPow2LE(<<1>>, n)

\* a positive number minus one (least significant digit first)
RECURSIVE DecLE(_)
DecLE(ds) ==
    IF Head(ds) = 0 THEN <<9>> \o DecLE(Tail(ds)) ELSE <<Head(ds) - 1>> \o Tail(ds)

\* viem's maxUint256 = 2n ** 256n - 1n, most significant digit first
maxUint256 == Reverse(DecLE(Pow2LE(UintBits)))

\* the literal of POST /api/approve
MaxUint256Literal ==
    <<1,1,5,7,9,2,0,8,9,2,3,7,3,1,6,1,9,5,4,2,3,5,7,0,9,8,5,0,0,8,6,8,7,9,0,7,8,5,3,
      2,6,9,9,8,4,6,6,5,6,4,0,5,6,4,0,3,9,4,5,7,5,8,4,0,0,7,9,1,3,1,2,9,6,3,9,9,3,5>>

IsDecimal(s) == s # <<>> /\ \A i \in 1..Len(s) : s[i] \in 0..9

\* the digits of a number without its leading zeros
RECURSIVE Normalise(_)
Normalise(s) ==
    IF Len(s) > 1 /\ Head(s) = 0 THEN Normalise(Tail(s)) ELSE s

\* JavaScript truthiness of the amount field: undefined and "" are falsy
Truthy(a) == a.k = "other" \/ (a.k = "string" /\ a.v # <<>>)

\* BigInt(amount): the value of a decimal string or of a number; a string
\* that is no number throws SyntaxError
BigIntThrows(a) == a.k = "string" /\ ~IsDecimal(a.v)
BigInt(a) == [k |-> "bigint", v |-> Normalise(a.v)]
Undefined == [k |-> "undefined", v |-> <<>>]

\* AllowanceGate.approve(facilitator, amount?): the amount of the transaction
\* it submits.  An omitted amount is the largest unsigned 256-bit value.
ApprovedAmount(arg) ==
    IF arg.k = "undefined" THEN maxUint256
    ELSE IF IsDecimal(arg.v) THEN Normalise(arg.v) ELSE <<>>

----------------------------------------------------------------------------
(* Inputs *)

Tokens == {"none", "s3cret", "wrong"}        \* x-proxy-token; "none": no header
PromptInputs ==
    {Absent, Other, StrVal(0), StrVal(PromptMinLen), StrVal(PromptMaxLen + 1)}
\* prompt, walletAddress and xmtp of a body: every prompt without hints, and a
\* good prompt with good hints or with bad ones
Body(p, w, x) == [prompt |-> p, walletAddress |-> w, xmtp |-> x]
Bodies ==
    {Body(p, "absent", "absent") : p \in PromptInputs}
        \cup {Body(StrVal(PromptMinLen), "address", "boolean"),
              Body(StrVal(PromptMinLen), "invalid", "other")}
TimeoutInputs ==
    {Absent, Other, IntVal(TimeoutMin - 1), IntVal(TimeoutMin), IntVal(3 * TimeoutMin),
     IntVal(TimeoutMax + 1)}
IntervalInputs ==
    {Absent, Other, IntVal(IntervalMin - 1), IntVal(IntervalMin), IntVal(IntervalMax),
     IntVal(IntervalMax + 1)}
JobIdInputs == {StrVal(JobIdMinLen), StrVal(JobIdMaxLen + 1)}
\* body.poll: absent, or an object with maxAttempts and perhaps the others
Poll(i, m, t) == [interval |-> i, maxAttempts |-> m, timeout |-> t]
PollInputs ==
    {Poll(Absent, Absent, Absent)}
        \cup {Poll(i, IntVal(m), t) :
                i \in {Absent, IntVal(0), IntVal(IntervalMin)},
                m \in 0..MaxPollAttempts,
                t \in {Absent, IntVal(TimeoutMin), IntVal(2 * TimeoutMin + 500)}}
SpenderInputs == {"absent", facilitatorAddress, "0xOther"}
AmountInputs ==
    {NoAmount, AmountOther, AmountStr(<<>>), AmountStr(<<1, 0, 0>>),
     AmountStr(<<0, 0, 7>>), AmountStr(<<10, 10, 10>>)}

\* What a downstream call does: it returns (a job status, for the calls
\* that return a job) or throws a raw error
Returns(st) == [ok |-> TRUE, status |-> st, error |-> NoError]
Throws(e) == [ok |-> FALSE, status |-> "none", error |-> e]
JobResults == {Returns(st) : st \in JobStatuses} \cup {Throws(e) : e \in RawErrors}
PlainResults == {Returns("none")} \cup {Throws(e) : e \in RawErrors}

----------------------------------------------------------------------------
(* Responses *)

Reply(status, code) == [n |-> 1, status |-> status, code |-> code, amount |-> <<>>]
Sent(r) == [resp |-> r, fault |-> FALSE]

\* const formatErrorResponse = (code, message, details = null) => ...
formatErrorResponse(status, code) == Sent(Reply(status, code))

\* A throw inside a catch block rejects the async handler's promise.  Express 4
\* drops the rejection (no response, unhandled rejection); Express 5 passes it
\* to the global error handler, which answers 500 INTERNAL_ERROR.
Escapes ==
    {[resp |-> NoResp, fault |-> TRUE], formatErrorResponse(500, "INTERNAL_ERROR")}

Has(error, signal) == signal \in error.signals

\* catch block of POST /api/prompt
catchPrompt(error) ==
    IF error.shape # "Error" THEN Escapes
    ELSE IF Has(error, "402") THEN {formatErrorResponse(402, "PAYMENT_REQUIRED")}
    ELSE IF Has(error, "401") THEN {formatErrorResponse(401, "UNAUTHORIZED")}
    ELSE {formatErrorResponse(500, "INTERNAL_ERROR")}

\* catch block of GET /api/job/:jobId
catchJob(error) ==
    IF error.shape # "Error" THEN Escapes
    ELSE IF Has(error, "404") THEN {formatErrorResponse(404, "JOB_NOT_FOUND")}
    ELSE {formatErrorResponse(500, "INTERNAL_ERROR")}

\* catch block of POST /api/prompt-and-wait
catchPromptAndWait(error) ==
    IF error.shape # "Error" THEN Escapes
    ELSE IF Has(error, "timeout") THEN {formatErrorResponse(408, "REQUEST_TIMEOUT")}
    ELSE IF Has(error, "402") THEN {formatErrorResponse(402, "PAYMENT_REQUIRED")}
    ELSE {formatErrorResponse(500, "INTERNAL_ERROR")}

\* catch blocks of GET /api/allowance and POST /api/approve: error.message is
\* read but not searched
catchPlain(error) ==
    IF error.shape = "nullish" THEN Escapes
    ELSE {formatErrorResponse(500, "INTERNAL_ERROR")}

\* catch block of GET /api/health: 503 and a body without error.code
catchHealth(error) ==
    IF error.shape = "nullish" THEN Escapes ELSE {Sent(Reply(503, "none"))}

\* catch blocks of the /api/bankr/ handlers:
\* res.status(500).json({ error: err?.message ?? "unknown error" })
catchProxy(error) == {Sent(Reply(500, "none"))}

\* the catch block of the handler of endpoint ep
Catch(ep, error) ==
    CASE ep = "/api/prompt" -> catchPrompt(error)
      [] ep = "/api/job/:jobId" -> catchJob(error)
      [] ep = "/api/prompt-and-wait" -> catchPromptAndWait(error)
      [] ep \in {"/api/allowance", "/api/approve"} -> catchPlain(error)
      [] ep = "/api/health" -> catchHealth(error)
      [] OTHER -> catchProxy(error)

\* handleValidationErrors: 400 VALIDATION_ERROR
validationError == formatErrorResponse(400, "VALIDATION_ERROR")

\* the limiter's message, sent with 429
rateLimitExceeded == formatErrorResponse(429, "RATE_LIMIT_EXCEEDED")

\* if (BANKR_PROXY_TOKEN && req.get("x-proxy-token") !== BANKR_PROXY_TOKEN)
Unauthorized(r) == proxyToken # "none" /\ r.token # proxyToken

----------------------------------------------------------------------------
(* Validation chains of src/server.js (express-validator) *)

InRange(f, lo, hi) == f.v >= lo /\ f.v <= hi
promptOk(r) == r.prompt.k = "string" /\ InRange(r.prompt, PromptMinLen, PromptMaxLen)
walletAddressOk(r) == r.walletAddress \in {"absent", "address"}
xmtpOk(r) == r.xmtp \in {"absent", "boolean"}
timeoutOk(r) ==
    r.timeout.k = "absent" \/ (r.timeout.k = "int" /\ InRange(r.timeout, TimeoutMin, TimeoutMax))
intervalOk(r) ==
    r.interval.k = "absent"
        \/ (r.interval.k = "int" /\ InRange(r.interval, IntervalMin, IntervalMax))
jobIdOk(r) == r.jobId.k = "string" /\ InRange(r.jobId, JobIdMinLen, JobIdMaxLen)
amountOk(r) == r.amount.k \in {"absent", "string"}

\* if (!prompt || typeof prompt !== "string") of the /api/bankr/ handlers
promptRequired(r) == ~(r.prompt.k = "string" /\ r.prompt.v > 0)

\* x = default when the field is undefined
OrDefault(f, default) == IF f.k = "absent" THEN default ELSE f.v

----------------------------------------------------------------------------
(* Steps *)

\* express-rate-limit on /api/ of src/server.js: the request is counted, and
\* refused once the window holds more than max requests
Limited == hits >= RateLimitMax
Counted == IF Limited THEN hits ELSE hits + 1

\* The handler of request r ends with outcome o (a response, or a rejection
\* that escaped), after the downstream calls c, the last of which threw e.
Finish(r, s, c, a, e, o) ==
    /\ pc' = "done"
    /\ req' = r
    /\ sdk' = s
    /\ calls' = c
    /\ approveArg' = a
    /\ raw' = e
    /\ resp' = o.resp
    /\ fault' = o.fault

\* HandlerFails with a catch block that submits the prompt again
HandlerFails_Resubmits(r, s, c, error) ==
    /\ pc' = "polling"
    /\ req' = r
    /\ sdk' = [s EXCEPT !.job = "pending", !.attempts = 0, !.elapsed = 0]
    /\ calls' = [c EXCEPT !.submit = @ + 1]
    /\ raw' = error
    /\ UNCHANGED <<approveArg, resp, fault>>

\* A downstream call of request r threw error: the handler's catch block
\* answers, and the request is over.  Nothing is called again.
HandlerFails(r, s, c, error) ==
    \E o \in Catch(r.ep, error) : Finish(r, s, c, approveArg, error, o)

\* client.promptAndWait(cfg) starts: the job is submitted, once.  A failed
\* submission throws; otherwise the loop is entered with the job's status.
StartPromptAndWait(r, cfg) ==
    \E out \in JobResults :
        LET c == [NoCalls EXCEPT !.submit = 1]
            s == [NoSdk EXCEPT !.cfg = cfg]
        IN  IF out.ok
            THEN /\ pc' = "polling"
                 /\ req' = r
                 /\ sdk' = [s EXCEPT !.job = out.status]
                 /\ calls' = c
                 /\ UNCHANGED <<approveArg, raw, resp, fault>>
            ELSE HandlerFails(r, s, c, out.error)

\* GET /api/health
Health ==
    /\ pc = "idle"
    /\ hits' = Counted
    /\ LET r == [NoReq EXCEPT !.ep = "/api/health"]
       IN  IF Limited THEN Finish(r, NoSdk, NoCalls, NoApprove, NoError, rateLimitExceeded)
           ELSE \E out \in PlainResults :
                    LET c == [NoCalls EXCEPT !.allowance = 1]
                    IN  IF out.ok
                        THEN Finish(r, NoSdk, c, NoApprove, NoError, Sent(Reply(200, "none")))
                        ELSE HandlerFails(r, NoSdk, c, out.error)
    /\ UNCHANGED <<proxyToken, aborted>>

\* POST /api/prompt
Prompt ==
    /\ pc = "idle"
    /\ hits' = Counted
    /\ \E tok \in Tokens, b \in Bodies :
        LET r == [NoReq EXCEPT !.ep = "/api/prompt", !.token = tok, !.prompt = b.prompt,
                               !.walletAddress = b.walletAddress, !.xmtp = b.xmtp]
        IN  IF Limited THEN Finish(r, NoSdk, NoCalls, NoApprove, NoError, rateLimitExceeded)
            ELSE IF ~(promptOk(r) /\ walletAddressOk(r) /\ xmtpOk(r))
            THEN Finish(r, NoSdk, NoCalls, NoApprove, NoError, validationError)
            ELSE \E out \in JobResults :
                    LET c == [NoCalls EXCEPT !.submit = 1]
                    IN  IF out.ok
                        THEN Finish(r, NoSdk, c, NoApprove, NoError, Sent(Reply(200, "none")))
                        ELSE HandlerFails(r, NoSdk, c, out.error)
    /\ UNCHANGED <<proxyToken, aborted>>

\* GET /api/job/:jobId
JobStatus ==
    /\ pc = "idle"
    /\ hits' = Counted
    /\ \E tok \in Tokens, j \in JobIdInputs :
        LET r == [NoReq EXCEPT !.ep = "/api/job/:jobId", !.token = tok, !.jobId = j]
        IN  IF Limited THEN Finish(r, NoSdk, NoCalls, NoApprove, NoError, rateLimitExceeded)
            ELSE IF ~jobIdOk(r)
            THEN Finish(r, NoSdk, NoCalls, NoApprove, NoError, validationError)
            ELSE \E out \in JobResults :
                    LET c == [NoCalls EXCEPT !.status = 1]
                    IN  IF out.ok
                        THEN Finish(r, NoSdk, c, NoApprove, NoError, Sent(Reply(200, "none")))
                        ELSE HandlerFails(r, NoSdk, c, out.error)
    /\ UNCHANGED <<proxyToken, aborted>>

\* POST /api/prompt-and-wait, up to the call of bankrClient.promptAndWait
PromptAndWait ==
    /\ pc = "idle"
    /\ hits' = Counted
    /\ \E tok \in Tokens, b \in Bodies, t \in TimeoutInputs, i \in IntervalInputs :
        LET r == [NoReq EXCEPT !.ep = "/api/prompt-and-wait", !.token = tok,
                               !.prompt = b.prompt, !.walletAddress = b.walletAddress,
                               !.xmtp = b.xmtp, !.timeout = t, !.interval = i]
            timeout == OrDefault(t, DefaultTimeout)
            interval == OrDefault(i, DefaultInterval)
        IN  IF Limited THEN Finish(r, NoSdk, NoCalls, NoApprove, NoError, rateLimitExceeded)
            ELSE IF ~(promptOk(r) /\ walletAddressOk(r) /\ xmtpOk(r) /\ timeoutOk(r)
                        /\ intervalOk(r))
            THEN Finish(r, NoSdk, NoCalls, NoApprove, NoError, validationError)
            ELSE StartPromptAndWait(r, [interval |-> interval, timeout |-> timeout,
                                        maxAttempts |-> timeout \div interval])
    /\ UNCHANGED <<proxyToken, aborted>>

\* GET /api/allowance
Allowance ==
    /\ pc = "idle"
    /\ hits' = Counted
    /\ \E tok \in Tokens :
        LET r == [NoReq EXCEPT !.ep = "/api/allowance", !.token = tok]
        IN  IF Limited THEN Finish(r, NoSdk, NoCalls, NoApprove, NoError, rateLimitExceeded)
            ELSE \E out \in PlainResults :
                    LET c == [NoCalls EXCEPT !.allowance = 1]
                    IN  IF out.ok
                        THEN Finish(r, NoSdk, c, NoApprove, NoError, Sent(Reply(200, "none")))
                        ELSE HandlerFails(r, NoSdk, c, out.error)
    /\ UNCHANGED <<proxyToken, aborted>>

\* approveAmount with the largest unsigned 128-bit value as its default
approveAmount_Uint128(a) ==
    IF Truthy(a) THEN AmountStr(a.v) ELSE AmountStr(Reverse(DecLE(Pow2LE(128))))

\* const amount = req.body.amount || '1157...9935'
approveAmount(a) == IF Truthy(a) THEN AmountStr(a.v) ELSE AmountStr(MaxUint256Literal)

\* POST /api/approve
Approve ==
    /\ pc = "idle"
    /\ hits' = Counted
    /\ \E tok \in Tokens, a \in AmountInputs :
        LET r == [NoReq EXCEPT !.ep = "/api/approve", !.token = tok, !.amount = a]
            arg == [spender |-> facilitatorAddress, amount |-> approveAmount(a)]
        IN  IF Limited THEN Finish(r, NoSdk, NoCalls, NoApprove, NoError, rateLimitExceeded)
            ELSE IF ~amountOk(r)
            THEN Finish(r, NoSdk, NoCalls, NoApprove, NoError, validationError)
            ELSE \E out \in PlainResults :
                    LET c == [NoCalls EXCEPT !.approve = 1]
                    IN  IF out.ok
                        THEN Finish(r, NoSdk, c, arg, NoError,
                                    Sent([Reply(200, "none") EXCEPT !.amount = arg.amount.v]))
                        ELSE /\ \E o \in Catch(r.ep, out.error) :
                                    Finish(r, NoSdk, c, arg, out.error, o)
    /\ UNCHANGED <<proxyToken, aborted>>

\* app.use('*'): any other path; the limiter counts it when it is under /api/
NotFound ==
    /\ pc = "idle"
    /\ \E underApi \in BOOLEAN :
        LET r == [NoReq EXCEPT !.ep = IF underApi THEN "/api/*" ELSE "*"]
        IN  /\ hits' = IF underApi THEN Counted ELSE hits
            /\ IF underApi /\ Limited
               THEN Finish(r, NoSdk, NoCalls, NoApprove, NoError, rateLimitExceeded)
               ELSE Finish(r, NoSdk, NoCalls, NoApprove, NoError,
                           formatErrorResponse(404, "NOT_FOUND"))
    /\ UNCHANGED <<proxyToken, aborted>>

----------------------------------------------------------------------------
(* src/unnamed/part_000 and part_001: the /api/bankr/ proxies *)

unauthorized == Sent(Reply(401, "none"))       \* { error: "unauthorized" }
badRequest == Sent(Reply(400, "none"))         \* { error: "prompt is required" }

\* GET /healthz of both proxies
Healthz ==
    /\ pc = "idle"
    /\ Finish([NoReq EXCEPT !.ep = "/healthz"], NoSdk, NoCalls, NoApprove, NoError,
              Sent(Reply(200, "none")))
    /\ UNCHANGED <<proxyToken, hits, aborted>>

\* POST /api/bankr/prompt (part_000), up to the call of client.promptAndWait
BankrPrompt ==
    /\ pc = "idle"
    /\ \E tok \in Tokens, b \in Bodies, poll \in PollInputs :
        LET r == [NoReq EXCEPT !.ep = "/api/bankr/prompt", !.token = tok,
                               !.prompt = b.prompt, !.walletAddress = b.walletAddress,
                               !.xmtp = b.xmtp, !.pollInterval = poll.interval,
                               !.pollMaxAttempts = poll.maxAttempts,
                               !.pollTimeout = poll.timeout]
        IN  IF Unauthorized(r)
            THEN Finish(r, NoSdk, NoCalls, NoApprove, NoError, unauthorized)
            ELSE IF promptRequired(r)
            THEN Finish(r, NoSdk, NoCalls, NoApprove, NoError, badRequest)
            ELSE StartPromptAndWait(r,
                    [interval |-> OrDefault(poll.interval, ProxyDefaultInterval),
                     maxAttempts |-> OrDefault(poll.maxAttempts, ProxyDefaultMaxAttempts),
                     timeout |-> OrDefault(poll.timeout, ProxyDefaultTimeout)])
    /\ UNCHANGED <<proxyToken, hits, aborted>>

\* POST /api/bankr/promptAndWait (part_001), up to the call of client.promptAndWait
BankrPromptAndWait ==
    /\ pc = "idle"
    /\ \E tok \in Tokens, b \in Bodies :
        LET r == [NoReq EXCEPT !.ep = "/api/bankr/promptAndWait", !.token = tok,
                               !.prompt = b.prompt, !.walletAddress = b.walletAddress,
                               !.xmtp = b.xmtp]
        IN  IF Unauthorized(r)
            THEN Finish(r, NoSdk, NoCalls, NoApprove, NoError, unauthorized)
            ELSE IF promptRequired(r)
            THEN Finish(r, NoSdk, NoCalls, NoApprove, NoError, badRequest)
            ELSE StartPromptAndWait(r, [interval |-> FixedInterval,
                                        maxAttempts |-> FixedMaxAttempts,
                                        timeout |-> FixedTimeout])
    /\ UNCHANGED <<proxyToken, hits, aborted>>

\* amount ? BigInt(amount) : undefined
bankrApproveAmount(a) == IF Truthy(a) THEN BigInt(a) ELSE Undefined

\* POST /api/bankr/approve (part_000)
BankrApprove ==
    /\ pc = "idle"
    /\ \E tok \in Tokens, sp \in SpenderInputs, a \in AmountInputs :
        LET r == [NoReq EXCEPT !.ep = "/api/bankr/approve", !.token = tok,
                               !.spender = sp, !.amount = a]
            arg == [spender |-> sp, amount |-> bankrApproveAmount(a)]
            c == [NoCalls EXCEPT !.approve = 1]
        IN  IF Unauthorized(r)
            THEN Finish(r, NoSdk, NoCalls, NoApprove, NoError, unauthorized)
            ELSE IF sp = "absent"
            THEN Finish(r, NoSdk, NoCalls, NoApprove, NoError, badRequest)
            ELSE IF Truthy(a) /\ BigIntThrows(a)
            THEN \E o \in Catch(r.ep, ErrorWith({})) :
                    Finish(r, NoSdk, NoCalls, NoApprove, NoError, o)
            ELSE \E out \in PlainResults :
                    IF out.ok
                    THEN Finish(r, NoSdk, c, arg, NoError, Sent(Reply(200, "none")))
                    ELSE \E o \in Catch(r.ep, out.error) :
                            Finish(r, NoSdk, c, arg, out.error, o)
    /\ UNCHANGED <<proxyToken, hits, aborted>>

\* POST /api/bankr/approve-bnkr (part_001): approve, then checkAllowance
ApproveBnkr ==
    /\ pc = "idle"
    /\ \E tok \in Tokens, a \in AmountInputs :
        LET r == [NoReq EXCEPT !.ep = "/api/bankr/approve-bnkr", !.token = tok,
                               !.amount = a]
            arg == [spender |-> facilitatorAddress,
                    amount |-> [k |-> "bigint", v |-> maxUint256]]
            c1 == [NoCalls EXCEPT !.approve = 1]
            c2 == [c1 EXCEPT !.allowance = 1]
        IN  IF Unauthorized(r)
            THEN Finish(r, NoSdk, NoCalls, NoApprove, NoError, unauthorized)
            ELSE \E out1 \in PlainResults :
                    IF ~out1.ok
                    THEN \E o \in Catch(r.ep, out1.error) :
                            Finish(r, NoSdk, c1, arg, out1.error, o)
                    ELSE \E out2 \in PlainResults :
                            IF out2.ok
                            THEN Finish(r, NoSdk, c2, arg, NoError, Sent(Reply(200, "none")))
                            ELSE \E o \in Catch(r.ep, out2.error) :
                                    Finish(r, NoSdk, c2, arg, out2.error, o)
    /\ UNCHANGED <<proxyToken, hits, aborted>>

----------------------------------------------------------------------------
(* BankrClient.promptAndWait: the poll loop (specification, section 4.1) *)

\* the error promptAndWait throws when it gives up: its message signals a timeout
TimeoutError == ErrorWith({"timeout"})

\* ShouldPoll without the look at the job's status
ShouldPoll_IgnoresTerminal(s) ==
    /\ s.attempts < s.cfg.maxAttempts
    /\ s.elapsed < s.cfg.timeout

\* The loop goes on while the job is not terminal, attempts are left and the
\* deadline has not passed
ShouldPoll(s) ==
    /\ ~Terminal(s.job)
    /\ s.attempts < s.cfg.maxAttempts
    /\ s.elapsed < s.cfg.timeout

\* One turn of the loop: sleep for interval, then one status check.  A failed
\* check throws out of promptAndWait into the handler's catch block.
PollStep ==
    /\ pc = "polling"
    /\ ShouldPoll(sdk)
    /\ \E out \in JobResults :
        LET s == [sdk EXCEPT !.elapsed = @ + sdk.cfg.interval, !.attempts = @ + 1]
            c == [calls EXCEPT !.status = @ + 1]
        IN  IF out.ok
            THEN /\ sdk' = [s EXCEPT !.job = out.status]
                 /\ calls' = c
                 /\ UNCHANGED <<pc, req, approveArg, raw, resp, fault>>
            ELSE HandlerFails(req, s, c, out.error)
    /\ UNCHANGED <<proxyToken, hits, aborted>>

\* promptAndWait is over: it returns the terminal job, which the handler sends
\* with res.json, or throws its timeout, which the handler's catch block gets
PromptAndWaitReturns ==
    /\ pc = "polling"
    /\ ~ShouldPoll(sdk)
    /\ IF Terminal(sdk.job)
       THEN Finish(req, sdk, calls, approveArg, NoError, Sent(Reply(200, "none")))
       ELSE HandlerFails(req, [sdk EXCEPT !.gaveUp = TRUE], calls, TimeoutError)
    /\ UNCHANGED <<proxyToken, hits, aborted>>

\* The caller closes its connection while the handler awaits promptAndWait.
\* No handler listens for it, and none hands promptAndWait a signal.
Abort ==
    /\ pc = "polling"
    /\ ~aborted
    /\ aborted' = TRUE
    /\ UNCHANGED <<proxyToken, hits, pc, req, sdk, calls, approveArg, raw, resp, fault>>

----------------------------------------------------------------------------
(* The environment *)

\* the request is over; the next one arrives
NextRequest ==
    /\ pc = "done"
    /\ pc' = "idle"
    /\ req' = NoReq
    /\ sdk' = NoSdk
    /\ calls' = NoCalls
    /\ approveArg' = NoApprove
    /\ raw' = NoError
    /\ resp' = NoResp
    /\ fault' = FALSE
    /\ aborted' = FALSE
    /\ UNCHANGED <<proxyToken, hits>>

\* windowMs has passed: the limiter forgets its count.  The count is read and
\* written when a request arrives only, so a reset during a request is taken
\* once the request is over.
WindowReset ==
    /\ pc = "idle"
    /\ hits > 0
    /\ hits' = 0
    /\ UNCHANGED <<proxyToken, pc, req, sdk, calls, approveArg, raw, resp, fault, aborted>>

Init ==
    /\ proxyToken \in {"none", "s3cret"}
    /\ hits = 0
    /\ pc = "idle"
    /\ req = NoReq
    /\ sdk = NoSdk
    /\ calls = NoCalls
    /\ approveArg = NoApprove
    /\ raw = NoError
    /\ resp = NoResp
    /\ fault = FALSE
    /\ aborted = FALSE

Next ==
    \/ Health
    \/ Prompt
    \/ JobStatus
    \/ PromptAndWait
    \/ Allowance
    \/ Approve
    \/ NotFound
    \/ Healthz
    \/ BankrPrompt
    \/ BankrPromptAndWait
    \/ BankrApprove
    \/ ApproveBnkr
    \/ PollStep
    \/ PromptAndWaitReturns
    \/ Abort
    \/ NextRequest
    \/ WindowReset

Spec == Init /\ [][Next]_vars

----------------------------------------------------------------------------
(* Vocabulary of the properties *)

PollEndpoints == {"/api/prompt-and-wait", "/api/bankr/prompt", "/api/bankr/promptAndWait"}
SubmitEndpoints == PollEndpoints \cup {"/api/prompt"}
ApproveEndpoints == {"/api/approve", "/api/bankr/approve", "/api/bankr/approve-bnkr"}
BusinessEndpoints ==
    SubmitEndpoints \cup ApproveEndpoints \cup {"/api/job/:jobId", "/api/allowance"}

Downstream == calls.submit + calls.status + calls.allowance + calls.approve
Answered == pc = "done" /\ resp.n = 1
RateLimited == resp.code = "RATE_LIMIT_EXCEEDED"

\* the ErrorKind a response code stands for
KindOf(code) ==
    CASE code = "INTERNAL_ERROR" -> "INTERNAL"
      [] code = "REQUEST_TIMEOUT" -> "TIMEOUT"
      [] code = "JOB_NOT_FOUND" -> "NOT_FOUND"
      [] code = "RATE_LIMIT_EXCEEDED" -> "RATE_LIMITED"
      [] OTHER -> code

\* the HTTP status of an ErrorKind
StatusOf(kind) ==
    CASE kind = "PAYMENT_REQUIRED" -> 402
      [] kind = "UNAUTHORIZED" -> 401
      [] kind = "NOT_FOUND" -> 404
      [] kind = "TIMEOUT" -> 408
      [] kind = "RATE_LIMITED" -> 429
      [] kind = "VALIDATION_ERROR" -> 400
      [] kind = "INTERNAL" -> 500
      [] OTHER -> 0

\* the ErrorKinds the classification policy allows for a raw error
KindsOf(error) ==
    IF error.shape # "Error" \/ error.signals = {} THEN {"INTERNAL"}
    ELSE {CASE s = "402" -> "PAYMENT_REQUIRED"
            [] s = "401" -> "UNAUTHORIZED"
            [] s = "404" -> "NOT_FOUND"
            [] OTHER -> "TIMEOUT" : s \in error.signals}

\* the request's input is invalid: prompt missing, empty, no string or too long;
\* walletAddress no address; a flag or a poll field of the wrong type or range
InvalidInput ==
    \/ ~promptOk(req)
    \/ ~walletAddressOk(req)
    \/ ~xmtpOk(req)
    \/ ~timeoutOk(req)
    \/ ~intervalOk(req)

\* promptAndWait gave up: no terminal status, and a bound was hit
GaveUp == pc = "done" /\ sdk.gaveUp

----------------------------------------------------------------------------
(* Properties *)

\* C1: a prompt-and-wait request makes at most maxAttempts status checks and
\* stops no later than timeout plus one interval; when the job never becomes
\* terminal it ends with TIMEOUT, HTTP 408, at the first bound that is hit.
C1_PollIsBoundedAndEndsWithTimeout ==
    req.ep \in PollEndpoints =>
        /\ calls.status <= sdk.cfg.maxAttempts
        /\ sdk.elapsed <= sdk.cfg.timeout + sdk.cfg.interval
        /\ sdk.gaveUp =>
                /\ ~Terminal(sdk.job)
                /\ sdk.attempts = sdk.cfg.maxAttempts \/ sdk.elapsed >= sdk.cfg.timeout
        /\ GaveUp => resp.n = 1 /\ resp.status = 408 /\ KindOf(resp.code) = "TIMEOUT"

\* C2: with a shared secret configured, a request to a business endpoint whose
\* x-proxy-token is absent or wrong is answered 401, and no downstream call is
\* made for it.
C2_ProxyTokenGatesEveryEndpoint ==
    (proxyToken # "none" /\ req.ep \in BusinessEndpoints /\ req.token # proxyToken) =>
        /\ Downstream = 0
        /\ pc # "polling"
        /\ (Answered /\ ~RateLimited) => resp.status = 401

\* C3: a request whose input is invalid is answered 400 VALIDATION_ERROR, and no
\* downstream call is made for it.
C3_InvalidInputIs400WithoutDownstreamCall ==
    (req.ep \in SubmitEndpoints /\ InvalidInput /\ ~Unauthorized(req)) =>
        /\ Downstream = 0
        /\ pc # "polling"
        /\ (Answered /\ ~RateLimited) =>
                resp.status = 400 /\ resp.code = "VALIDATION_ERROR"

\* C4: on every endpoint a raw downstream error is classified to the one
\* ErrorKind of the policy: 402 PAYMENT_REQUIRED, 401 UNAUTHORIZED, 404
\* NOT_FOUND, a timeout signal TIMEOUT, anything else INTERNAL.
C4_ClassificationIsTotal ==
    (pc = "done" /\ req.ep \in BusinessEndpoints /\ raw # NoError) =>
        resp.n = 1 /\ KindOf(resp.code) \in KindsOf(raw)

\* C5: the status of an error response is the one the table gives for its code,
\* and a submission that failed with 402 is answered 402 PAYMENT_REQUIRED.
C5_StatusFollowsCode ==
    /\ (Answered /\ resp.code # "none") => resp.status = StatusOf(KindOf(resp.code))
    /\ (Answered /\ req.ep \in SubmitEndpoints /\ raw = ErrorWith({"402"})
            /\ calls.submit = 1 /\ calls.status = 0) =>
            resp.status = 402 /\ resp.code = "PAYMENT_REQUIRED"

\* C6: a request whose downstream call failed gets exactly one error response
\* with a code field, and no error escapes its handler.
C6_EveryDownstreamFailureIsAnswered ==
    (pc = "done" /\ req.ep \in BusinessEndpoints /\ raw # NoError) =>
        resp.n = 1 /\ resp.status >= 400 /\ resp.code # "none" /\ ~fault

\* C7: once a terminal status was observed, by the submission or by a status
\* check, the invocation makes no further status check.
C7_NoStatusCheckAfterTerminal ==
    [][Terminal(sdk.job) => calls'.status <= calls.status]_vars

\* the loop saw a terminal status at a status check, before either bound
C7_TerminalSeenBeforeBounds ==
    /\ pc = "done"
    /\ req.ep \in PollEndpoints
    /\ Terminal(sdk.job)
    /\ calls.status >= 1
    /\ sdk.attempts < sdk.cfg.maxAttempts
    /\ sdk.elapsed < sdk.cfg.timeout
    /\ resp.status = 200

C9_NoStatusCheckAfterAbort ==
    [][aborted => calls'.status <= calls.status]_vars

=============================================================================
